---- MODULE Spec2Model ----
(***************************************************************************)
(* State-machine model of the duolingo_anki scripts:                       *)
(*   download_audio_files.py                    (tool = "csv")             *)
(*   fetch_duolingo_lexemes.py, steps 4 and 5   (tool = "api")             *)
(*   fetch_duolingo_lexemes.py, step 2          (tool = "fetch")           *)
(*   fetch_duolingo_lexemes.py, step 3          (tool = "extract")         *)
(*   combine_vocabulary_and_audio_file_links.py (tool = "merge")           *)
(*   add_audio_file_references.py               (tool = "rewrite")         *)
(* The scripts share no runtime state: a behaviour runs one of them, and   *)
(* the two downloaders may be run again over the same audio folder.        *)
(*                                                                         *)
(* A Python string that the code takes apart (a URL path, a line of the    *)
(* link file) is a sequence of one-character strings; '' is <<>>.          *)
(***************************************************************************)
EXTENDS Integers, Sequences, FiniteSets, TLC

VARIABLES
    tool,              \* which script this behaviour runs
    pc,                \* position inside the script
    run,               \* number of the current invocation (1 = first)
    \* ---- the audio folder and the two downloaders
    disk,              \* audio folder: filename -> file
    csv_file,          \* download_audio_files: input CSV [header, rows]
    lexeme_data_list,  \* download_all_audio_files: list of extracted entries
    audio_link_index,  \* download_audio_files: column of 'audio_file_link'
    i,                 \* 1-based position of the row being processed
    attempt,           \* loop variable of the download call
    nreq,              \* requests issued by the current download call
    nretry,            \* retryable responses seen by the current call
    last,              \* latest response of the current call
    sleeps,            \* durations of the time.sleep calls of the current call
    result,            \* return value of the current call ("none" while running)
    reqs,              \* requests issued per URL in this invocation
    counts,            \* downloaded / skipped / failed / total counters
    log,               \* per-row outcome printed by this invocation
    url_to_filename,   \* download_all_audio_files: the returned mapping
    anki_csv,          \* create_anki_csv: rows written
    ok_urls,           \* URLs whose download returned True in this invocation
    okBefore,          \* URLs whose download returned True in an earlier one
    prevDisk,          \* the audio folder when this invocation started
    \* ---- fetch_all_lexemes
    limit,             \* page size
    start_index,       \* running offset
    all_lexemes,       \* records accumulated so far
    calls,             \* the calls issued: their startIndex and limit
    pages,             \* the record lists the service answered with
    \* ---- extract_lexeme_data
    lexeme,            \* the remote record
    extracted,         \* the entry returned, or the exception raised
    \* ---- merge_vocabulary_with_audio_links
    csv_in,            \* rows of the source CSV, header first
    txt_lines,         \* lines of the link file, as file iteration yields them
    audio_links,       \* the links loaded from the link file
    row_count,         \* rows written so far
    out_rows,          \* rows of the output CSV
    notes,             \* messages printed
    \* ---- convert_csv_to_anki_format
    rw_in,             \* rows of the input CSV, header first
    out_file,          \* the output CSV: whether it exists, and its rows
    out_before,        \* the output CSV as the invocation found it
    rw_link_index,     \* audio_link_index, 1-based; 0 before it is known
    processed_rows     \* data rows processed so far

dlVars == <<disk, csv_file, lexeme_data_list, audio_link_index, i, attempt,
            nreq, nretry, last, sleeps, result, reqs, counts, log,
            url_to_filename, anki_csv, ok_urls, okBefore, prevDisk>>

callVars == <<attempt, nreq, nretry, last, sleeps, result>>

fetchVars == <<limit, start_index, all_lexemes, calls, pages>>

extractVars == <<lexeme, extracted>>

mergeVars == <<csv_in, txt_lines, audio_links, row_count, out_rows, notes>>

rewriteVars == <<rw_in, out_file, out_before, rw_link_index, processed_rows>>

vars == <<tool, pc, run, dlVars, fetchVars, extractVars, mergeVars, rewriteVars>>

----------------------------------------------------------------------------
(* Bounds of the model *)

MaxRows == 2          \* rows of the CSV / entries of the lexeme list
MaxRuns == 2          \* invocations of a downloader over one audio folder
MaxPages == 3         \* calls the service answers in one fetch
SmallLimit == 2       \* a page size besides the default one
MaxDataRows == 3      \* data rows of the source CSV of the merge
MaxLines == 3         \* lines of the link file

----------------------------------------------------------------------------
(* Strings *)

EmptyStr == <<>>

LowerChar(c) ==
    CASE c = "M" -> "m"
      [] c = "P" -> "p"
      [] c = "A" -> "a"
      [] c = "B" -> "b"
      [] OTHER -> c

lower(s) == [k \in 1..Len(s) |-> LowerChar(s[k])]

endswith(s, suffix) ==
    /\ Len(s) >= Len(suffix)
    /\ SubSeq(s, Len(s) - Len(suffix) + 1, Len(s)) = suffix

\* s.split('/')[-1]: what follows the last '/', the whole string without one
LastSegment(s) ==
    LET slashes == {k \in 1..Len(s) : s[k] = "/"}
        from == IF slashes = {} THEN 1
                ELSE (CHOOSE k \in slashes : \A m \in slashes : m <= k) + 1
    IN  SubSeq(s, from, Len(s))

DotMp3 == <<".", "m", "p", "3">>

extract_filename_from_url(url) ==
    LET filename == LastSegment(url.path)
    IN  IF ~endswith(lower(filename), DotMp3) THEN filename \o DotMp3
        ELSE filename

----------------------------------------------------------------------------
(* URLs and the remote server *)

EmptyUrl == [host |-> "", path |-> EmptyStr]
UrlA == [host |-> "h1", path |-> <<"/", "x", "/", "a">>]
UrlB == [host |-> "h2", path |-> <<"/", "y", "/", "a", ".", "m", "p", "3">>]
UrlC == [host |-> "h1", path |-> <<"/", "b", ".", "M", "P", "3">>]

Urls == {UrlA, UrlB, UrlC}

\* What one urlopen / read / write of a download attempt can do.
HttpErrorCodes == {404, 429, 503}

Responses ==
    {[kind |-> "ok", code |-> 200],         \* body read and written
     [kind |-> "bodyerr", code |-> 200],    \* response.read() or f.write() raises
     [kind |-> "urlerr", code |-> 0],       \* urllib.error.URLError
     [kind |-> "other", code |-> 0]}        \* any other exception of urlopen
    \cup {[kind |-> "http", code |-> c] : c \in HttpErrorCodes}

NoResponse == [kind |-> "none", code |-> 0]

\* The classes of responses the specification of the downloaders speaks of:
\* retryable (HTTP 429, any 5xx, a network-level error), and an HTTP error
\* status that is neither 429 nor 5xx.
Retryable(r) ==
    \/ r.kind = "http" /\ r.code = 429
    \/ r.kind = "http" /\ r.code >= 500 /\ r.code <= 599
    \/ r.kind = "urlerr"

OtherHttpError(r) ==
    /\ r.kind = "http"
    /\ r.code # 429
    /\ ~(r.code >= 500 /\ r.code <= 599)

----------------------------------------------------------------------------
(* The audio folder *)

NoFiles == [f \in {} |-> 0]

\* A file: whose body it holds, whether all of it, and the invocation that
\* wrote it. A "truncated" file is empty or holds a part of the body.
FullFile(url, r) == [body |-> url, state |-> "full", written |-> r]
TruncatedFile(url, r) == [body |-> url, state |-> "truncated", written |-> r]

\* The mutant: the existence check never finds the file.
path_exists_never(d, filename) == FALSE

\* os.path.exists(filepath)
path_exists(d, filename) == filename \in DOMAIN d

WriteFile(d, filename, file) ==
    [f \in DOMAIN d \cup {filename} |-> IF f = filename THEN file ELSE d[f]]

\* with urlopen(...) as response: with open(filepath, 'wb') as f:
\*     f.write(response.read())
\* open() creates or truncates the file before response.read() runs.
DiskAfter(d, filename, url, r, n) ==
    CASE r.kind = "ok" -> WriteFile(d, filename, FullFile(url, n))
      [] r.kind = "bodyerr" -> WriteFile(d, filename, TruncatedFile(url, n))
      [] OTHER -> d

----------------------------------------------------------------------------
(* The two download calls *)

BackoffMaxRetries == 5      \* download_with_backoff(url, filepath, max_retries=5)
AudioMaxRetries == 3        \* download_audio_file(url, filepath, max_retries=3)

\* The mutant: the loop runs one attempt more.
backoff_attempts_one_more == BackoffMaxRetries + 2

\* for attempt in range(max_retries + 1)
backoff_attempts == BackoffMaxRetries + 1

\* for attempt in range(max_retries)
audio_attempts == AudioMaxRetries

\* The mutant: a fixed delay instead of the exponential one.
wait_time_fixed(a) == 2

\* wait_time = (2 ** attempt) + 1
wait_time(a) == (2 ^ a) + 1

\* time.sleep(2 ** attempt)
audio_sleep(a) == 2 ^ a

\* The except clauses of download_with_backoff, in their order:
\* "true" = return True, "retry" = sleep and go round, "false" = return False.
backoff_handler(r) ==
    IF r.kind = "ok" THEN "true"
    ELSE IF r.kind = "http" THEN
        IF r.code = 429 THEN "retry"
        ELSE IF 500 <= r.code /\ r.code < 600 THEN "retry"
        ELSE "false"
    ELSE IF r.kind = "urlerr" THEN "retry"
    ELSE "false"

\* download_audio_file has one clause, except Exception, for every failure.
audio_handler(r) ==
    IF r.kind = "ok" THEN "true" ELSE "retry"

CurUrl ==
    IF tool = "csv" THEN csv_file.rows[i][audio_link_index]
    ELSE lexeme_data_list[i].audio_url

NewCall ==
    /\ attempt' = 0
    /\ nreq' = 0
    /\ nretry' = 0
    /\ last' = NoResponse
    /\ sleeps' = <<>>
    /\ result' = "none"

\* What every attempt does before its outcome is known: one request, and the
\* file opened once the connection is.
Request(r) ==
    /\ nreq' = nreq + 1
    /\ reqs' = [reqs EXCEPT ![CurUrl] = @ + 1]
    /\ last' = r
    /\ nretry' = IF Retryable(r) THEN nretry + 1 ELSE nretry
    /\ disk' = DiskAfter(disk, extract_filename_from_url(CurUrl), CurUrl, r, run)

\* One pass of the loop of download_with_backoff.
BackoffAttempt ==
    /\ tool = "csv"
    /\ pc = "call"
    /\ attempt < backoff_attempts
    /\ \E r \in Responses :
        /\ Request(r)
        /\ CASE backoff_handler(r) = "true" ->
                    /\ result' = TRUE
                    /\ pc' = "returned"
                    /\ UNCHANGED <<attempt, sleeps>>
             [] backoff_handler(r) = "false" ->
                    /\ result' = FALSE
                    /\ pc' = "returned"
                    /\ UNCHANGED <<attempt, sleeps>>
             [] backoff_handler(r) = "retry" ->
                    /\ sleeps' = Append(sleeps, wait_time(attempt))
                    /\ attempt' = attempt + 1
                    /\ IF attempt + 1 < backoff_attempts
                       THEN UNCHANGED <<pc, result>>
                       ELSE /\ result' = FALSE    \* the loop is exhausted
                            /\ pc' = "returned"
    /\ UNCHANGED <<fetchVars, extractVars, mergeVars, rewriteVars>>
    /\ UNCHANGED <<tool, run, csv_file, lexeme_data_list, audio_link_index, i,
                   counts, log, url_to_filename, anki_csv, ok_urls, okBefore,
                   prevDisk>>

\* One pass of the loop of download_audio_file.
AudioAttempt ==
    /\ tool = "api"
    /\ pc = "call"
    /\ attempt < audio_attempts
    /\ \E r \in Responses :
        /\ Request(r)
        /\ CASE audio_handler(r) = "true" ->
                    /\ result' = TRUE
                    /\ pc' = "returned"
                    /\ UNCHANGED <<attempt, sleeps>>
             [] audio_handler(r) = "retry" ->
                    IF attempt < audio_attempts - 1
                    THEN /\ sleeps' = Append(sleeps, audio_sleep(attempt))
                         /\ attempt' = attempt + 1
                         /\ UNCHANGED <<pc, result>>
                    ELSE /\ result' = FALSE
                         /\ pc' = "returned"
                         /\ UNCHANGED <<attempt, sleeps>>
    /\ UNCHANGED <<fetchVars, extractVars, mergeVars, rewriteVars>>
    /\ UNCHANGED <<tool, run, csv_file, lexeme_data_list, audio_link_index, i,
                   counts, log, url_to_filename, anki_csv, ok_urls, okBefore,
                   prevDisk>>

----------------------------------------------------------------------------
(* download_audio_files.py: the row loop of download_audio_files *)

AudioFileLink == "audio_file_link"

\* header.index(name): the first position holding name, 0 for ValueError
index(header, name) ==
    LET at == {k \in 1..Len(header) : header[k] = name}
    IN  IF at = {} THEN 0 ELSE CHOOSE k \in at : \A m \in at : k <= m

Bump(c, field) == [c EXCEPT ![field] = @ + 1]

ZeroCounts == [downloaded |-> 0, skipped |-> 0, failed |-> 0, total |-> 0]

NoMapping == [u \in {} |-> EmptyStr]

RowsLeft ==
    IF tool = "csv" THEN i <= Len(csv_file.rows) ELSE i <= Len(lexeme_data_list)

\* header = next(csv_reader); audio_link_index = header.index('audio_file_link')
OpenCsv ==
    /\ tool = "csv"
    /\ pc = "start"
    /\ audio_link_index' = index(csv_file.header, AudioFileLink)
    /\ pc' = IF index(csv_file.header, AudioFileLink) = 0 THEN "done" ELSE "row"
    /\ UNCHANGED <<fetchVars, extractVars, mergeVars, rewriteVars>>
    /\ UNCHANGED <<tool, run, disk, csv_file, lexeme_data_list, i, callVars,
                   reqs, counts, log, url_to_filename, anki_csv, ok_urls,
                   okBefore, prevDisk>>

\* the row is too short, or its link cell is empty: continue
CsvRowNoLink ==
    /\ tool = "csv"
    /\ pc = "row"
    /\ RowsLeft
    /\ \/ audio_link_index > Len(csv_file.rows[i])
       \/ /\ audio_link_index <= Len(csv_file.rows[i])
          /\ CurUrl = EmptyUrl
    /\ log' = Append(log, "nolink")
    /\ i' = i + 1
    /\ UNCHANGED <<fetchVars, extractVars, mergeVars, rewriteVars>>
    /\ UNCHANGED <<tool, pc, run, disk, csv_file, lexeme_data_list,
                   audio_link_index, callVars, reqs, counts, url_to_filename,
                   anki_csv, ok_urls, okBefore, prevDisk>>

\* os.path.exists(filepath): skipped_count += 1; continue
CsvRowExists ==
    /\ tool = "csv"
    /\ pc = "row"
    /\ RowsLeft
    /\ audio_link_index <= Len(csv_file.rows[i])
    /\ CurUrl # EmptyUrl
    /\ path_exists(disk, extract_filename_from_url(CurUrl))
    /\ counts' = Bump(Bump(counts, "total"), "skipped")
    /\ log' = Append(log, "skipped")
    /\ i' = i + 1
    /\ UNCHANGED <<fetchVars, extractVars, mergeVars, rewriteVars>>
    /\ UNCHANGED <<tool, pc, run, disk, csv_file, lexeme_data_list,
                   audio_link_index, callVars, reqs, url_to_filename, anki_csv,
                   ok_urls, okBefore, prevDisk>>

\* the file is not there: enter download_with_backoff(audio_url, filepath)
CsvRowDownload ==
    /\ tool = "csv"
    /\ pc = "row"
    /\ RowsLeft
    /\ audio_link_index <= Len(csv_file.rows[i])
    /\ CurUrl # EmptyUrl
    /\ ~path_exists(disk, extract_filename_from_url(CurUrl))
    /\ counts' = Bump(counts, "total")
    /\ NewCall
    /\ pc' = "call"
    /\ UNCHANGED <<fetchVars, extractVars, mergeVars, rewriteVars>>
    /\ UNCHANGED <<tool, run, disk, csv_file, lexeme_data_list, audio_link_index,
                   i, reqs, log, url_to_filename, anki_csv, ok_urls, okBefore,
                   prevDisk>>

\* if download_with_backoff(...): downloaded_count += 1 else: failed_count += 1
CsvRowResult ==
    /\ tool = "csv"
    /\ pc = "returned"
    /\ counts' = Bump(counts, IF result THEN "downloaded" ELSE "failed")
    /\ log' = Append(log, IF result THEN "downloaded" ELSE "failed")
    /\ ok_urls' = IF result THEN ok_urls \cup {CurUrl} ELSE ok_urls
    /\ i' = i + 1
    /\ pc' = "row"
    /\ NewCall                      \* the locals of the call are gone
    /\ UNCHANGED <<fetchVars, extractVars, mergeVars, rewriteVars>>
    /\ UNCHANGED <<tool, run, disk, csv_file, lexeme_data_list, audio_link_index,
                   reqs, url_to_filename, anki_csv, okBefore, prevDisk>>

\* the reader is exhausted: print the summary
CsvSummary ==
    /\ tool = "csv"
    /\ pc = "row"
    /\ ~RowsLeft
    /\ pc' = "done"
    /\ UNCHANGED <<fetchVars, extractVars, mergeVars, rewriteVars>>
    /\ UNCHANGED <<tool, run, dlVars>>

----------------------------------------------------------------------------
(* fetch_duolingo_lexemes.py: download_all_audio_files and create_anki_csv *)

\* url_to_filename[audio_url] = filename, before the existence check
MappingAfterRow(m, url, d) ==
    [u \in DOMAIN m \cup {url} |->
        IF u = url THEN extract_filename_from_url(url) ELSE m[u]]

\* if not audio_url: continue
ApiRowNoUrl ==
    /\ tool = "api"
    /\ pc = "row"
    /\ RowsLeft
    /\ CurUrl = EmptyUrl
    /\ log' = Append(log, "nolink")
    /\ i' = i + 1
    /\ UNCHANGED <<fetchVars, extractVars, mergeVars, rewriteVars>>
    /\ UNCHANGED <<tool, pc, run, disk, csv_file, lexeme_data_list,
                   audio_link_index, callVars, reqs, counts, url_to_filename,
                   anki_csv, ok_urls, okBefore, prevDisk>>

\* os.path.exists(filepath): skipped += 1; continue
ApiRowExists ==
    /\ tool = "api"
    /\ pc = "row"
    /\ RowsLeft
    /\ CurUrl # EmptyUrl
    /\ url_to_filename' = MappingAfterRow(url_to_filename, CurUrl, disk)
    /\ path_exists(disk, extract_filename_from_url(CurUrl))
    /\ counts' = Bump(counts, "skipped")
    /\ log' = Append(log, "skipped")
    /\ i' = i + 1
    /\ UNCHANGED <<fetchVars, extractVars, mergeVars, rewriteVars>>
    /\ UNCHANGED <<tool, pc, run, disk, csv_file, lexeme_data_list,
                   audio_link_index, callVars, reqs, anki_csv, ok_urls,
                   okBefore, prevDisk>>

\* the file is not there: enter download_audio_file(audio_url, filepath)
ApiRowDownload ==
    /\ tool = "api"
    /\ pc = "row"
    /\ RowsLeft
    /\ CurUrl # EmptyUrl
    /\ url_to_filename' = MappingAfterRow(url_to_filename, CurUrl, disk)
    /\ ~path_exists(disk, extract_filename_from_url(CurUrl))
    /\ NewCall
    /\ pc' = "call"
    /\ UNCHANGED <<fetchVars, extractVars, mergeVars, rewriteVars>>
    /\ UNCHANGED <<tool, run, disk, csv_file, lexeme_data_list, audio_link_index,
                   i, reqs, counts, log, anki_csv, ok_urls, okBefore, prevDisk>>

\* if download_audio_file(...): downloaded += 1 else: failed += 1
ApiRowResult ==
    /\ tool = "api"
    /\ pc = "returned"
    /\ counts' = Bump(counts, IF result THEN "downloaded" ELSE "failed")
    /\ log' = Append(log, IF result THEN "downloaded" ELSE "failed")
    /\ ok_urls' = IF result THEN ok_urls \cup {CurUrl} ELSE ok_urls
    /\ i' = i + 1
    /\ pc' = "row"
    /\ NewCall                      \* the locals of the call are gone
    /\ UNCHANGED <<fetchVars, extractVars, mergeVars, rewriteVars>>
    /\ UNCHANGED <<tool, run, disk, csv_file, lexeme_data_list, audio_link_index,
                   reqs, url_to_filename, anki_csv, okBefore, prevDisk>>

\* the list is exhausted: print the summary and return url_to_filename
ApiReturnMapping ==
    /\ tool = "api"
    /\ pc = "row"
    /\ ~RowsLeft
    /\ pc' = "emit"
    /\ UNCHANGED <<fetchVars, extractVars, mergeVars, rewriteVars>>
    /\ UNCHANGED <<tool, run, dlVars>>

\* audio_reference of one entry
audio_reference(data, m) ==
    IF data.audio_url # EmptyUrl /\ data.audio_url \in DOMAIN m
    THEN [sound |-> m[data.audio_url]]     \* f"[sound:{filename}]"
    ELSE EmptyStr

AnkiHeader == <<"vietnamese", "english", "audio">>

\* create_anki_csv(lexeme_data_list, url_to_filename)
CreateAnkiCsv ==
    /\ tool = "api"
    /\ pc = "emit"
    /\ anki_csv' = <<AnkiHeader>> \o
            [k \in 1..Len(lexeme_data_list) |->
                <<lexeme_data_list[k].word, lexeme_data_list[k].translation,
                  audio_reference(lexeme_data_list[k], url_to_filename)>>]
    /\ pc' = "done"
    /\ UNCHANGED <<fetchVars, extractVars, mergeVars, rewriteVars>>
    /\ UNCHANGED <<tool, run, disk, csv_file, lexeme_data_list, audio_link_index,
                   i, callVars, reqs, counts, log, url_to_filename, ok_urls,
                   okBefore, prevDisk>>

\* The script is started again over the same input and the same audio folder.
Rerun ==
    /\ tool \in {"csv", "api"}
    /\ pc = "done"
    /\ run < MaxRuns
    /\ run' = run + 1
    /\ pc' = IF tool = "csv" THEN "start" ELSE "row"
    /\ i' = 1
    /\ audio_link_index' = 0
    /\ NewCall
    /\ reqs' = [u \in Urls |-> 0]
    /\ counts' = ZeroCounts
    /\ log' = <<>>
    /\ url_to_filename' = NoMapping
    /\ okBefore' = okBefore \cup ok_urls
    /\ ok_urls' = {}
    /\ prevDisk' = disk
    /\ UNCHANGED <<fetchVars, extractVars, mergeVars, rewriteVars>>
    /\ UNCHANGED <<tool, disk, csv_file, lexeme_data_list, anki_csv>>

----------------------------------------------------------------------------
(* fetch_duolingo_lexemes.py: fetch_all_lexemes *)

DefaultLimit == 50    \* fetch_all_lexemes(base_url, headers, post_data, limit=50)

\* The records of the page answered to call number k: n records, in order.
Records(k, n) == [j \in 1..n |-> <<k, j>>]

Decoy == << <<0, 0>> >>

\* The JSON documents the service may answer call k with: n records under
\* 'lexemes', under 'results', under 'lexemes' beside a 'results' key, or
\* under neither key.
ResponsesTo(k, n) ==
    {[has_lexemes |-> TRUE, lexemes |-> Records(k, n),
      has_results |-> FALSE, results |-> <<>>],
     [has_lexemes |-> FALSE, lexemes |-> <<>>,
      has_results |-> TRUE, results |-> Records(k, n)],
     [has_lexemes |-> TRUE, lexemes |-> Records(k, n),
      has_results |-> TRUE, results |-> Decoy],
     [has_lexemes |-> FALSE, lexemes |-> <<>>,
      has_results |-> FALSE, results |-> <<>>]}

\* if 'lexemes' in response ... elif 'results' in response ... else ...
lexemes_of(response) ==
    IF response.has_lexemes THEN response.lexemes
    ELSE IF response.has_results THEN response.results
    ELSE <<>>

\* The mutant: the offset advances by one record, not by one page.
next_start_index_by_one(s, l) == s + 1

\* start_index += limit
next_start_index(s, l) == s + l

\* if len(lexemes) < limit: break
is_last_page(lexemes, l) == Len(lexemes) < l

\* One pass of the while loop: one call of fetch_lexemes, answered.
FetchPage ==
    /\ tool = "fetch"
    /\ pc = "fetch"
    /\ Len(calls) < MaxPages
    /\ \E n \in 0..(limit + 1) :
        \E response \in ResponsesTo(Len(calls) + 1, n) :
            LET lexemes == lexemes_of(response)
            IN  /\ calls' = Append(calls, [startIndex |-> start_index,
                                           limit |-> limit])
                /\ pages' = Append(pages, lexemes)
                /\ IF lexemes = <<>>
                   THEN /\ pc' = "done"
                        /\ UNCHANGED <<all_lexemes, start_index>>
                   ELSE /\ all_lexemes' = all_lexemes \o lexemes
                        /\ IF is_last_page(lexemes, limit)
                           THEN /\ pc' = "done"
                                /\ UNCHANGED start_index
                           ELSE /\ start_index' = next_start_index(start_index, limit)
                                /\ UNCHANGED pc
    /\ UNCHANGED <<tool, run, limit, dlVars, extractVars, mergeVars, rewriteVars>>

\* fetch_lexemes raises (transport error or HTTP error status): the fetch aborts.
FetchRaises ==
    /\ tool = "fetch"
    /\ pc = "fetch"
    /\ Len(calls) < MaxPages
    /\ calls' = Append(calls, [startIndex |-> start_index, limit |-> limit])
    /\ pc' = "error"
    /\ UNCHANGED <<tool, run, limit, start_index, all_lexemes, pages, dlVars,
                   extractVars, mergeVars, rewriteVars>>

----------------------------------------------------------------------------
(* fetch_duolingo_lexemes.py: extract_lexeme_data *)

\* A key of a remote record: present or not, and its value when present.
\* The values of these keys are not taken apart: they are TLA+ strings.
Absent == [has |-> FALSE, v |-> ""]
Value(v) == [has |-> TRUE, v |-> v]

NoList == [has |-> FALSE, v |-> <<>>]
List(l) == [has |-> TRUE, v |-> l]

EmptyDict == [word |-> Absent, translation |-> Absent, audio |-> Absent,
              tts |-> Absent]

\* The 'lexeme' key: absent, a mapping, or a value that is no mapping.
NoLexemeKey == [has |-> FALSE, mapping |-> TRUE, d |-> EmptyDict]
Mapping(d) == [has |-> TRUE, mapping |-> TRUE, d |-> d]
NotAMapping == [has |-> TRUE, mapping |-> FALSE, d |-> EmptyDict]

\* d.get(key, default)
get(field, default) == IF field.has THEN field.v ELSE default

\* Python's a or b: a when a is truthy, else b
Or(a, b) == IF a # "" THEN a ELSE b

Raised(exception) ==
    [raised |-> exception, word |-> "", translation |-> "", audio_url |-> ""]

\* extract_lexeme_data(lexeme): the entry, or the exception it raises
extract_lexeme_data(rec) ==
    IF rec.lexeme.has /\ ~rec.lexeme.mapping
    THEN Raised("AttributeError")      \* lexeme.get('lexeme', {}).get(...)
    ELSE
    LET nested == IF rec.lexeme.has THEN rec.lexeme.d ELSE EmptyDict
        word == Or(Or(get(nested.word, ""), get(rec.word, "")),
                   get(rec.learningWord, ""))
        translation12 == Or(get(nested.translation, ""),
                            get(rec.translation, ""))
        audio_url ==
            IF rec.lexeme.has /\ nested.audio.has THEN nested.audio.v
            ELSE IF rec.audio.has THEN rec.audio.v
            ELSE IF rec.tts.has THEN rec.tts.v
            ELSE IF rec.lexeme.has /\ nested.tts.has THEN nested.tts.v
            ELSE ""
    IN  IF translation12 # ""
        THEN [raised |-> "", word |-> word, translation |-> translation12,
              audio_url |-> audio_url]
        ELSE IF rec.translations.has /\ rec.translations.v = <<>>
        THEN Raised("IndexError")      \* lexeme.get('translations', [''])[0]
        ELSE [raised |-> "", word |-> word,
              translation |-> IF rec.translations.has
                              THEN rec.translations.v[1] ELSE "",
              audio_url |-> audio_url]

\* lexeme_data_list = [extract_lexeme_data(lex) for lex in all_lexemes], for
\* one record; an exception leaves the comprehension and ends main.
ExtractRecord ==
    /\ tool = "extract"
    /\ pc = "extract"
    /\ extracted' = extract_lexeme_data(lexeme)
    /\ pc' = IF extract_lexeme_data(lexeme).raised # "" THEN "error" ELSE "done"
    /\ UNCHANGED <<tool, run, lexeme, dlVars, fetchVars, mergeVars, rewriteVars>>

NestedDicts ==
    [word : {Absent, Value("nw")},
     translation : {Absent, Value("nt")},
     audio : {Absent, Value(""), Value("na")},
     tts : {Absent, Value("ns")}]

RemoteRecords ==
    [lexeme : {NoLexemeKey, NotAMapping} \cup {Mapping(d) : d \in NestedDicts},
     word : {Absent, Value(""), Value("w")},
     learningWord : {Absent, Value("lw")},
     translation : {Absent, Value(""), Value("t")},
     translations : {NoList, List(<<>>), List(<<"">>), List(<<"t1", "t2">>)},
     audio : {Absent, Value("a")},
     tts : {Absent, Value("s")}]

----------------------------------------------------------------------------
(* combine_vocabulary_and_audio_file_links.py *)

AudioFileLinkStr ==
    <<"a", "u", "d", "i", "o", "_", "f", "i", "l", "e", "_", "l", "i", "n", "k">>

IsSpace(c) == c \in {" ", "\t", "\n", "\r"}

\* s.strip()
strip(s) ==
    LET solid == {k \in 1..Len(s) : ~IsSpace(s[k])}
    IN  IF solid = {} THEN EmptyStr
        ELSE SubSeq(s, CHOOSE k \in solid : \A m \in solid : k <= m,
                       CHOOSE k \in solid : \A m \in solid : m <= k)

RECURSIVE load_audio_links(_)
\* [line.strip() for line in f if line.strip()]
load_audio_links(lines) ==
    IF lines = <<>> THEN <<>>
    ELSE IF strip(Head(lines)) # EmptyStr
         THEN <<strip(Head(lines))>> \o load_audio_links(Tail(lines))
         ELSE load_audio_links(Tail(lines))

\* The mutant: the link of the row itself, not of the row less the header.
audio_index_of_row(n) == n

\* audio_index = i - 1
audio_index(n) == n - 1

\* The cell appended to a data row
link_cell(links, at) ==
    IF at < Len(links) THEN links[at + 1]     \* links is 0-based in the code
    ELSE EmptyStr

\* The mutant: the note is printed only when links are left over.
count_mismatch_when_fewer_rows(data_rows, n_links) == data_rows < n_links

\* if data_rows != len(audio_links)
count_mismatch(data_rows, n_links) == data_rows # n_links

\* audio_links = [line.strip() for line in f if line.strip()]; both files opened
LoadLinks ==
    /\ tool = "merge"
    /\ pc = "load"
    /\ audio_links' = load_audio_links(txt_lines)
    /\ out_rows' = <<>>                       \* open(output_file, 'w')
    /\ row_count' = 0
    /\ pc' = "rows"
    /\ UNCHANGED <<tool, run, csv_in, txt_lines, notes, dlVars, fetchVars,
                   extractVars, rewriteVars>>

\* One pass of the loop over csv_reader; row_count is enumerate's i.
MergeRow ==
    /\ tool = "merge"
    /\ pc = "rows"
    /\ row_count < Len(csv_in)
    /\ LET row == csv_in[row_count + 1]
       IN  out_rows' = Append(out_rows,
                IF row_count = 0 THEN Append(row, AudioFileLinkStr)
                ELSE Append(row, link_cell(audio_links, audio_index(row_count))))
    /\ row_count' = row_count + 1
    /\ UNCHANGED <<tool, pc, run, csv_in, txt_lines, audio_links, notes, dlVars,
                   fetchVars, extractVars, rewriteVars>>

\* After the loop: the counts are compared and the note printed.
MergeReport ==
    /\ tool = "merge"
    /\ pc = "rows"
    /\ row_count = Len(csv_in)
    /\ notes' = IF count_mismatch(row_count - 1, Len(audio_links))
                THEN notes \cup {"count mismatch"} ELSE notes
    /\ pc' = "done"
    /\ UNCHANGED <<tool, run, csv_in, txt_lines, audio_links, row_count,
                   out_rows, dlVars, fetchVars, extractVars, rewriteVars>>

SourceHeader == << <<"w", "o", "r", "d">>, <<"e", "n">> >>
SourceRows == {<< <<"w">>, <<"t">> >>, << <<"v">> >>}
LinkLines == {<<"u", "\n">>, <<" ", "v", " ", "\n">>, <<"\n">>, <<" ", "\n">>}

----------------------------------------------------------------------------
(* add_audio_file_references.py *)

\* urlparse(url).path of a URL '//host/path': what follows the host
urlparse_path(url) ==
    IF Len(url) >= 2 /\ url[1] = "/" /\ url[2] = "/"
    THEN LET slashes == {k \in 3..Len(url) : url[k] = "/"}
         IN  IF slashes = {} THEN EmptyStr
             ELSE SubSeq(url, CHOOSE k \in slashes : \A m \in slashes : k <= m,
                         Len(url))
    ELSE url

\* extract_filename_from_url(url) of this script: '' for a blank url
filename_of_cell(url) ==
    IF strip(url) = EmptyStr THEN EmptyStr
    ELSE extract_filename_from_url([host |-> "", path |-> urlparse_path(strip(url))])

\* create_anki_sound_reference(filename)
create_anki_sound_reference(filename) ==
    IF filename = EmptyStr THEN EmptyStr
    ELSE <<"[", "s", "o", "u", "n", "d", ":">> \o filename \o <<"]">>

RECURSIVE pad_row(_, _)
\* while len(row) <= audio_link_index: row.append('')
pad_row(row, at) ==
    IF Len(row) < at THEN pad_row(Append(row, EmptyStr), at) ELSE row

\* The row written for a data row; at is the 1-based place of the link column.
rewritten_row(row, at) ==
    LET padded == pad_row(row, at)
        audio_url == strip(padded[at])
    IN  IF audio_url # EmptyStr
        THEN [padded EXCEPT ![at] =
                create_anki_sound_reference(filename_of_cell(audio_url))]
        ELSE [padded EXCEPT ![at] = EmptyStr]

NoOutput == [exists |-> FALSE, rows |-> <<>>]
Output(rows) == [exists |-> TRUE, rows |-> rows]

\* Both files are opened, the output for writing; the header is read and the
\* place of 'audio_file_link' looked up; the function returns when it is absent.
RewriteOpen ==
    /\ tool = "rewrite"
    /\ pc = "open"
    /\ out_file' = Output(<<>>)               \* open(output_csv, 'w')
    /\ rw_link_index' = index(rw_in[1], AudioFileLinkStr)
    /\ processed_rows' = 0
    /\ pc' = IF index(rw_in[1], AudioFileLinkStr) = 0 THEN "done" ELSE "rows"
    /\ UNCHANGED <<tool, run, rw_in, out_before, dlVars, fetchVars, extractVars,
                   mergeVars>>

\* One pass of the loop over the data rows.
RewriteRow ==
    /\ tool = "rewrite"
    /\ pc = "rows"
    /\ processed_rows < Len(rw_in) - 1
    /\ out_file' = Output(Append(out_file.rows,
                        rewritten_row(rw_in[processed_rows + 2], rw_link_index)))
    /\ processed_rows' = processed_rows + 1
    /\ UNCHANGED <<tool, pc, run, rw_in, out_before, rw_link_index, dlVars,
                   fetchVars, extractVars, mergeVars>>

\* The reader is exhausted: the summary is printed and the files are closed.
RewriteSummary ==
    /\ tool = "rewrite"
    /\ pc = "rows"
    /\ processed_rows = Len(rw_in) - 1
    /\ pc' = "done"
    /\ UNCHANGED <<tool, run, rewriteVars, dlVars, fetchVars, extractVars,
                   mergeVars>>

WordCell == <<"w">>
LinkCell == <<"/", "/", "h", "/", "x", "/", "a">>
BlankCell == <<" ">>

RewriteHeaders ==
    {<<WordCell, AudioFileLinkStr>>,
     <<AudioFileLinkStr, WordCell, WordCell>>,
     <<WordCell, WordCell>>}
RewriteRows ==
    {<<WordCell, LinkCell>>, <<LinkCell, WordCell, WordCell>>, <<LinkCell>>,
     <<WordCell, BlankCell>>, <<>>}

\* What an earlier run may have left at the output path.
EarlierOutputs == {NoOutput, Output(<< <<WordCell>> >>)}

----------------------------------------------------------------------------
(* Inputs *)

SeqsUpTo(S, n) == UNION {[1..k -> S] : k \in 0..n}

CsvHeaders == {<<"word", AudioFileLink>>, <<"word">>}
CsvRows == {<<"w", u>> : u \in Urls \cup {EmptyUrl}} \cup {<<"w">>}
CsvFiles == [header : CsvHeaders, rows : SeqsUpTo(CsvRows, MaxRows)]

LexemeEntries ==
    {[word |-> "w", translation |-> "t", audio_url |-> u] :
        u \in Urls \cup {EmptyUrl}}

DownloadStart ==
    /\ run = 1
    /\ disk = NoFiles
    /\ audio_link_index = 0
    /\ i = 1
    /\ attempt = 0
    /\ nreq = 0
    /\ nretry = 0
    /\ last = NoResponse
    /\ sleeps = <<>>
    /\ result = "none"
    /\ reqs = [u \in Urls |-> 0]
    /\ counts = ZeroCounts
    /\ log = <<>>
    /\ url_to_filename = NoMapping
    /\ anki_csv = <<>>
    /\ ok_urls = {}
    /\ okBefore = {}
    /\ prevDisk = NoFiles

DownloadIdle ==
    /\ DownloadStart
    /\ csv_file = [header |-> <<>>, rows |-> <<>>]
    /\ lexeme_data_list = <<>>

FetchIdle ==
    /\ limit = DefaultLimit
    /\ start_index = 0
    /\ all_lexemes = <<>>
    /\ calls = <<>>
    /\ pages = <<>>

ExtractIdle ==
    /\ lexeme = [lexeme |-> NoLexemeKey, word |-> Absent,
                 learningWord |-> Absent, translation |-> Absent,
                 translations |-> NoList, audio |-> Absent, tts |-> Absent]
    /\ extracted = Raised("")

MergeIdle ==
    /\ csv_in = <<>>
    /\ txt_lines = <<>>
    /\ audio_links = <<>>
    /\ row_count = 0
    /\ out_rows = <<>>
    /\ notes = {}

RewriteIdle ==
    /\ rw_in = <<>>
    /\ out_file = NoOutput
    /\ out_before = NoOutput
    /\ rw_link_index = 0
    /\ processed_rows = 0

\* download_audio_files(csv_file) over an empty audio folder
InitCsv ==
    /\ tool = "csv"
    /\ pc = "start"
    /\ csv_file \in CsvFiles
    /\ lexeme_data_list = <<>>
    /\ DownloadStart
    /\ FetchIdle /\ ExtractIdle /\ MergeIdle /\ RewriteIdle

\* download_all_audio_files(lexeme_data_list) over an empty audio folder
InitApi ==
    /\ tool = "api"
    /\ pc = "row"
    /\ csv_file = [header |-> <<>>, rows |-> <<>>]
    /\ lexeme_data_list \in SeqsUpTo(LexemeEntries, MaxRows)
    /\ DownloadStart
    /\ FetchIdle /\ ExtractIdle /\ MergeIdle /\ RewriteIdle

\* fetch_all_lexemes(base_url, headers, post_data, limit)
InitFetch ==
    /\ tool = "fetch"
    /\ pc = "fetch"
    /\ run = 1
    /\ limit \in {SmallLimit, DefaultLimit}
    /\ start_index = 0
    /\ all_lexemes = <<>>
    /\ calls = <<>>
    /\ pages = <<>>
    /\ DownloadIdle /\ ExtractIdle /\ MergeIdle /\ RewriteIdle

\* extract_lexeme_data(lexeme)
InitExtract ==
    /\ tool = "extract"
    /\ pc = "extract"
    /\ lexeme \in RemoteRecords
    /\ extracted = Raised("")
    /\ DownloadIdle /\ FetchIdle /\ MergeIdle /\ RewriteIdle

\* merge_vocabulary_with_audio_links(csv_file, txt_file, output_file)
InitMerge ==
    /\ tool = "merge"
    /\ pc = "load"
    /\ csv_in \in {<<SourceHeader>> \o rows :
                        rows \in SeqsUpTo(SourceRows, MaxDataRows)}
    /\ txt_lines \in SeqsUpTo(LinkLines, MaxLines)
    /\ audio_links = <<>>
    /\ row_count = 0
    /\ out_rows = <<>>
    /\ notes = {}
    /\ DownloadIdle /\ FetchIdle /\ ExtractIdle /\ RewriteIdle

\* convert_csv_to_anki_format(input_csv, output_csv)
InitRewrite ==
    /\ tool = "rewrite"
    /\ pc = "open"
    /\ run = 1
    /\ rw_in \in {<<h>> \o rows : h \in RewriteHeaders,
                                  rows \in SeqsUpTo(RewriteRows, MaxDataRows)}
    /\ out_file \in EarlierOutputs
    /\ out_before = out_file
    /\ rw_link_index = 0
    /\ processed_rows = 0
    /\ DownloadIdle /\ FetchIdle /\ ExtractIdle /\ MergeIdle

Init ==
    InitCsv \/ InitApi \/ InitFetch \/ InitExtract \/ InitMerge \/ InitRewrite

Next ==
    \/ OpenCsv
    \/ CsvRowNoLink
    \/ CsvRowExists
    \/ CsvRowDownload
    \/ BackoffAttempt
    \/ CsvRowResult
    \/ CsvSummary
    \/ ApiRowNoUrl
    \/ ApiRowExists
    \/ ApiRowDownload
    \/ AudioAttempt
    \/ ApiRowResult
    \/ ApiReturnMapping
    \/ CreateAnkiCsv
    \/ Rerun
    \/ FetchPage
    \/ FetchRaises
    \/ ExtractRecord
    \/ LoadLinks
    \/ MergeRow
    \/ MergeReport
    \/ RewriteOpen
    \/ RewriteRow
    \/ RewriteSummary

Spec == Init /\ [][Next]_vars

----------------------------------------------------------------------------
(* Vocabulary of the claims about the downloaders *)

FileThere(filename) == filename \in DOMAIN disk

Downloading == tool \in {"csv", "api"}

\* The URL of row k of the input, '' when the row has no link cell.
RowUrl(k) ==
    IF tool = "csv"
    THEN IF audio_link_index >= 1 /\ audio_link_index <= Len(csv_file.rows[k])
         THEN csv_file.rows[k][audio_link_index]
         ELSE EmptyUrl
    ELSE lexeme_data_list[k].audio_url

RowsCarrying(u) ==
    Cardinality({k \in 1..(IF tool = "csv" THEN Len(csv_file.rows)
                                           ELSE Len(lexeme_data_list)) :
                    RowUrl(k) = u})

----------------------------------------------------------------------------
(* C1: in the API pipeline every URL of the returned url_to_filename maps   *)
(* to a filename whose file exists in the audio folder when create_anki_csv *)
(* reads the mapping, a URL whose download failed is never added, and so    *)
(* every non-empty audio cell of the CSV names a file that is on disk.      *)
C1_MappingFilesExist ==
    (tool = "api" /\ pc \in {"emit", "done"}) =>
        /\ \A u \in DOMAIN url_to_filename : FileThere(url_to_filename[u])
        /\ pc = "done" =>
            \A k \in 2..Len(anki_csv) :
                anki_csv[k][3] # EmptyStr => FileThere(anki_csv[k][3].sound)

(* C2: a file exists at a target path only if an attempt completed, and it  *)
(* then holds the full response body: a failed call leaves no new, empty or *)
(* partial file behind for the existence check of a later run to find.      *)
C2_AtomicWrite ==
    Downloading =>
        \A f \in DOMAIN disk : disk[f].state = "full"

(* C3: download_with_backoff, answered by k retryable responses and then a  *)
(* 200 with k within the retry budget, returns success on attempt k+1 after *)
(* exactly k sleeps, the sleep after attempt a lasting 2^a + 1 seconds, so  *)
(* the durations strictly increase; there is no sleep after the success.    *)
C3_RetryBackoff ==
    (/\ tool = "csv"
     /\ pc = "returned"
     /\ last.kind = "ok"
     /\ nretry = nreq - 1
     /\ nretry <= BackoffMaxRetries) =>
        /\ result = TRUE
        /\ Len(sleeps) = nretry
        /\ \A a \in 0..(nretry - 1) : sleeps[a + 1] = (2 ^ a) + 1
        /\ \A a \in 1..(Len(sleeps) - 1) : sleeps[a] < sleeps[a + 1]

\* two retryable responses, then 200: two sleeps, success on the third attempt
C3_Witness ==
    /\ tool = "csv"
    /\ pc = "returned"
    /\ last.kind = "ok"
    /\ nretry = 2
    /\ nreq = 3
    /\ sleeps = <<2, 3>>
    /\ result = TRUE

(* C4: in both downloaders a first response that is an HTTP error status    *)
(* other than 429 and 5xx ends the download after exactly one request, with *)
(* no sleep and the result failure.                                         *)
C4_NoRetryOnOtherHttpError ==
    (Downloading /\ nreq = 1 /\ OtherHttpError(last)) =>
        /\ pc = "returned"
        /\ sleeps = <<>>
        /\ result = FALSE

(* C5 as stated: a download call issues at most max_retries requests (5 in  *)
(* download_with_backoff, 3 in download_audio_file), reports failure when   *)
(* every response was retryable, and no URL is requested more often than    *)
(* that in one run.                                                         *)
C5_AtMostMaxRetriesRequests ==
    Downloading =>
        LET most == IF tool = "csv" THEN BackoffMaxRetries ELSE AudioMaxRetries
        IN  /\ nreq <= most
            /\ \A u \in Urls : reqs[u] <= most
            /\ (pc = "returned" /\ nretry = nreq) => result = FALSE

(* C5, amended: a download call issues at most max_retries + 1 requests in  *)
(* download_with_backoff (6) and max_retries in download_audio_file (3); a  *)
(* call whose responses were all retryable ends with that many requests and *)
(* the result failure; a URL is requested in one run at most that many      *)
(* times for each row that carries it.                                      *)
C5_BoundedRetry ==
    Downloading =>
        LET most == IF tool = "csv" THEN BackoffMaxRetries + 1
                    ELSE AudioMaxRetries
        IN  /\ nreq <= most
            /\ pc = "call" => nreq < most
            /\ (pc = "returned" /\ nretry = nreq) =>
                    (result = FALSE /\ nreq = most)
            /\ \A u \in Urls : reqs[u] <= most * RowsCarrying(u)

\* six retryable responses in a row to download_with_backoff
C5_Witness ==
    /\ tool = "csv"
    /\ pc = "returned"
    /\ nretry = 6
    /\ nreq = 6
    /\ result = FALSE

(* C6: a URL whose download succeeded in an earlier invocation is not       *)
(* requested by a later invocation over the same input and audio folder:    *)
(* each of its rows is counted as skipped, and its file is left as the      *)
(* earlier invocation wrote it.                                             *)
C6_IdempotentRerun ==
    Downloading =>
        \A u \in okBefore :
            /\ reqs[u] = 0
            /\ FileThere(extract_filename_from_url(u))
            /\ disk[extract_filename_from_url(u)] =
                    prevDisk[extract_filename_from_url(u)]
            /\ disk[extract_filename_from_url(u)].written < run
            /\ disk[extract_filename_from_url(u)].state = "full"
            /\ \A k \in 1..Len(log) : RowUrl(k) = u => log[k] = "skipped"
            /\ counts.skipped >=
                    Cardinality({k \in 1..Len(log) : RowUrl(k) = u})

\* a second invocation has run to its end over a URL downloaded by the first
C6_Witness ==
    /\ Downloading
    /\ run = 2
    /\ pc = "done"
    /\ okBefore # {}
    /\ \E k \in 1..Len(log) : RowUrl(k) \in okBefore /\ log[k] = "skipped"
    /\ counts.downloaded = 0

----------------------------------------------------------------------------
(* Vocabulary of the claims about the fetcher, the extractor and the merge *)

RECURSIVE Concatenation(_)
Concatenation(lists) ==
    IF lists = <<>> THEN <<>>
    ELSE Head(lists) \o Concatenation(Tail(lists))

\* A line of the link file without its white space.
Solid(c) == c # " " /\ c # "\n" /\ c # "\t" /\ c # "\r"
LinkOf(line) == SelectSeq(line, Solid)

RECURSIVE LinksOf(_)
\* The links of the non-blank lines, in file order.
LinksOf(lines) ==
    IF lines = <<>> THEN <<>>
    ELSE IF LinkOf(Head(lines)) = <<>> THEN LinksOf(Tail(lines))
    ELSE <<LinkOf(Head(lines))>> \o LinksOf(Tail(lines))

DataRows == Len(csv_in) - 1              \* N
LinkCount == Len(LinksOf(txt_lines))     \* M
NewCell(r) == out_rows[r + 1][Len(out_rows[r + 1])]

\* None of the candidate fields is in the record.
NoRecognizableField(rec) ==
    /\ ~rec.lexeme.has
    /\ ~rec.word.has /\ ~rec.learningWord.has
    /\ ~rec.translation.has /\ ~rec.translations.has
    /\ ~rec.audio.has /\ ~rec.tts.has

----------------------------------------------------------------------------
(* C7: with page size L the calls of fetch_all_lexemes carry startIndex 0,  *)
(* L, 2L, ... and limit L; no call follows the first page that is empty or  *)
(* shorter than L; the result is the pages concatenated in call order.      *)
C7_Pagination ==
    tool = "fetch" =>
        /\ \A k \in 1..Len(calls) :
                calls[k] = [startIndex |-> (k - 1) * limit, limit |-> limit]
        /\ Len(calls) = Len(pages) + (IF pc = "error" THEN 1 ELSE 0)
        /\ \A k \in 1..Len(pages) :
                Len(pages[k]) < limit => (k = Len(pages) /\ pc = "done")
        /\ pc = "done" => (pages # <<>> /\ Len(pages[Len(pages)]) < limit)
        /\ all_lexemes = Concatenation(pages)

\* pages of 50, 50 and 30 records with L = 50: 130 records after three calls
C7_Witness ==
    /\ tool = "fetch"
    /\ pc = "done"
    /\ limit = 50
    /\ Len(calls) = 3
    /\ Len(pages) = 3
    /\ Len(pages[1]) = 50 /\ Len(pages[2]) = 50 /\ Len(pages[3]) = 30
    /\ Len(all_lexemes) = 130
    /\ all_lexemes[130] = <<3, 30>>

(* C8: extract_lexeme_data raises nothing: for every remote record it       *)
(* returns an entry, and a record with none of the candidate fields yields  *)
(* the entry with word, translation and audio_url all empty.                *)
C8_ExtractNeverFails ==
    (tool = "extract" /\ pc # "extract") =>
        /\ pc = "done"
        /\ extracted.raised = ""
        /\ NoRecognizableField(lexeme) =>
                /\ extracted.word = ""
                /\ extracted.translation = ""
                /\ extracted.audio_url = ""

(* C9: the merge of N data rows with M links writes the rows in input order *)
(* (N+1 when it ends): the header with 'audio_file_link' appended, and data *)
(* row r with one cell appended, link r when r <= M and '' otherwise.       *)
C9_LinkAttach ==
    (tool = "merge" /\ pc \in {"rows", "done"}) =>
        /\ Len(out_rows) = row_count
        /\ pc = "done" => Len(out_rows) = DataRows + 1
        /\ Len(out_rows) >= 1 =>
                out_rows[1] = Append(csv_in[1], AudioFileLinkStr)
        /\ \A r \in 1..(Len(out_rows) - 1) :
                out_rows[r + 1] =
                    Append(csv_in[r + 1],
                           IF r <= LinkCount THEN LinksOf(txt_lines)[r]
                           ELSE EmptyStr)

\* two data rows, two links (one on a padded line) and a blank line between
C9_Witness ==
    /\ tool = "merge"
    /\ pc = "done"
    /\ DataRows = 2
    /\ LinkCount = 2
    /\ Len(txt_lines) = 3
    /\ NewCell(1) = <<"u">>
    /\ NewCell(2) = <<"v">>
    /\ notes = {}

(* C10 as stated: with M < N links the rows N-M+1..N of the output have an  *)
(* empty new cell, the mismatch is reported and all N+1 rows are written.   *)
C10_LastMRowsEmpty ==
    (tool = "merge" /\ pc = "done" /\ LinkCount < DataRows) =>
        /\ Len(out_rows) = DataRows + 1
        /\ "count mismatch" \in notes
        /\ \A r \in (DataRows - LinkCount + 1)..DataRows : NewCell(r) = EmptyStr

(* C10, amended: with M < N links the rows M+1..N of the output have an     *)
(* empty new cell (rows 1..M carry their links), the mismatch is reported   *)
(* and all N+1 rows are written.                                            *)
C10_RowsAfterLinksEmpty ==
    (tool = "merge" /\ pc = "done" /\ LinkCount < DataRows) =>
        /\ Len(out_rows) = DataRows + 1
        /\ "count mismatch" \in notes
        /\ \A r \in (LinkCount + 1)..DataRows : NewCell(r) = EmptyStr
        /\ \A r \in 1..LinkCount : NewCell(r) # EmptyStr

\* three data rows and two links
C10_Witness ==
    /\ tool = "merge"
    /\ pc = "done"
    /\ DataRows = 3
    /\ LinkCount = 2
    /\ NewCell(2) # EmptyStr
    /\ NewCell(3) = EmptyStr
    /\ "count mismatch" \in notes

----------------------------------------------------------------------------
(* Vocabulary of the claims about the sound-reference rewriter *)

ColumnMissing == index(rw_in[1], AudioFileLinkStr) = 0

\* Row r of the rewriter's output comes from data row r of its input.
ShortInputRow(r) == Len(rw_in[r + 1]) < Len(rw_in[1])

----------------------------------------------------------------------------
(* C11: when the header of the input CSV has no 'audio_file_link' column,   *)
(* convert_csv_to_anki_format fails fast without writing output: the output *)
(* file is neither created nor modified, and one left by an earlier run     *)
(* keeps its contents.                                                      *)
C11_MissingColumnLeavesOutput ==
    (tool = "rewrite" /\ pc = "done" /\ ColumnMissing) =>
        out_file = out_before

(* C12: in the output of the merge and of the rewriter every data row has   *)
(* as many cells as the header row; a row that was shorter than the header  *)
(* is padded with empty strings, so that the appended or rewritten cell     *)
(* sits at the position of the 'audio_file_link' header cell.               *)
C12_RowsMatchHeader ==
    /\ (tool = "merge" /\ pc = "done") =>
            \A r \in 2..Len(out_rows) :
                /\ Len(out_rows[r]) = Len(out_rows[1])
                /\ out_rows[1][Len(out_rows[r])] = AudioFileLinkStr
    /\ (tool = "rewrite" /\ pc = "done" /\ ~ColumnMissing) =>
            \A r \in 1..Len(out_file.rows) :
                /\ Len(out_file.rows[r]) = Len(rw_in[1])
                /\ ShortInputRow(r) =>
                     \A c \in (Len(rw_in[r + 1]) + 1)..Len(rw_in[1]) :
                        c # rw_link_index => out_file.rows[r][c] = EmptyStr

(* C13: within the downloaders a file downloaded from one URL is never      *)
(* taken for the cached copy of another: a row is skipped by the existence  *)
(* check only when the file found holds the audio of that row's own URL,    *)
(* and a URL of the returned mapping names a file holding its own audio.    *)
C13_NoCrossUrlReuse ==
    Downloading =>
        /\ \A k \in 1..Len(log) :
              log[k] = "skipped" =>
                 disk[extract_filename_from_url(RowUrl(k))].body = RowUrl(k)
        /\ \A u \in DOMAIN url_to_filename :
              FileThere(url_to_filename[u]) => disk[url_to_filename[u]].body = u

====
